---- MODULE Spec2Model ----
(* Gas price service of the token bridge (src/src/services/gasPrice.js):   *)
(* a module-level cache of the current gas price and of the last oracle    *)
(* reply, refreshed by a timer-driven callback that asks an HTTP oracle    *)
(* first and the bridge contract second, and read by getPrice.             *)
EXTENDS Integers, Sequences, FiniteSets, TLC

VARIABLES cachedGasPrice, cachedGasPriceOracleSpeeds, fetchGasPriceInterval,
          timers, cycles, chain, nStarts, nCycles, returned, writer

vars == <<cachedGasPrice, cachedGasPriceOracleSpeeds, fetchGasPriceInterval,
          timers, cycles, chain, nStarts, nCycles, returned, writer>>

-----------------------------------------------------------------------------
(* Bounds of the model *)

MaxStarts == 2
MaxCycles == 3
MaxOracle == 4
MaxInFlight == 2
MaxInput == 50

-----------------------------------------------------------------------------
(* JavaScript values: null, undefined, numbers, strings, thrown errors *)

Null == [t |-> "null", n |-> 0, s |-> ""]
Undefined == [t |-> "undefined", n |-> 0, s |-> ""]
Num(n) == [t |-> "num", n |-> n, s |-> ""]
Str(s) == [t |-> "str", n |-> 0, s |-> s]
Error(name) == [t |-> "error", n |-> 0, s |-> name]

Truthy(v) ==
  CASE v.t = "num" -> v.n # 0
    [] v.t = "str" -> v.s # ""
    [] OTHER -> FALSE

(* An object parsed from the oracle's JSON reply, or null *)
EmptyJson == [k \in {} |-> 0]
NoSpeeds == [t |-> "null", json |-> EmptyJson]
Obj(json) == [t |-> "obj", json |-> json]

Lookup(json, k) == IF k \in DOMAIN json THEN Num(json[k]) ELSE Undefined

(* Web3Utils.toWei(n.toString(), 'gwei'): the decimal string of n * 10^9 *)
toWei(n) == IF n = 0 THEN "0" ELSE ToString(n) \o "000000000"

-----------------------------------------------------------------------------
(* Configuration *)

Chains == {"home", "foreign"}
ChainIds == Chains \cup {"unknown"}
SpeedKeys == {"fast", "slow"}

MIN == 2
MAX == 3

HOME_GAS_PRICE_FALLBACK == Str("1000000000")
FOREIGN_GAS_PRICE_FALLBACK == Str("5000000000")
HOME_GAS_PRICE_SPEED_TYPE == "fast"
FOREIGN_GAS_PRICE_SPEED_TYPE == "slow"

speedTypeOf(chainId) ==
  IF chainId = "home" THEN HOME_GAS_PRICE_SPEED_TYPE ELSE FOREIGN_GAS_PRICE_SPEED_TYPE

-----------------------------------------------------------------------------
(* Inputs from the environment *)

Throws == [ok |-> FALSE, json |-> EmptyJson, value |-> Null]

(* the oracle replies with a JSON object of speeds, which may lack keys,   *)
(* or the fetch/parse throws                                               *)
OracleJsons == UNION {[D -> 0..MaxOracle] : D \in SUBSET SpeedKeys}
OracleOutcomes == {Throws} \cup {[ok |-> TRUE, json |-> j, value |-> Null] : j \in OracleJsons}

(* bridgeContract.methods.gasPrice().call() resolves to a value or throws *)
ContractValues == {Num(0), Str("7000000000")}
ContractOutcomes == {Throws} \cup {[ok |-> TRUE, json |-> EmptyJson, value |-> v] : v \in ContractValues}

NoOptions == [present |-> FALSE, type |-> "", value |-> Undefined]
Options(type, value) == [present |-> TRUE, type |-> type, value |-> value]
OptionsInputs ==
  {NoOptions, Options("gasPrice", Num(99)), Options("gasPrice", Num(0)),
   Options("speed", Str("fast")), Options("speed", Str("slow"))}

-----------------------------------------------------------------------------
(* Pure functions of the service *)

gasPriceWithinLimitsNoMin(gasPrice) ==
  IF gasPrice > MAX THEN MAX ELSE gasPrice

gasPriceWithinLimits(gasPrice) ==
  IF gasPrice < MIN THEN MIN
  ELSE IF gasPrice > MAX THEN MAX
  ELSE gasPrice

(* the part of fetchGasPriceFromOracle after the reply has been parsed *)
fetchGasPriceFromOracleNoClamp(json, speedType) ==
  IF ~Truthy(Lookup(json, speedType))
  THEN [ok |-> FALSE, oracleGasPrice |-> Null, oracleResponse |-> NoSpeeds]
  ELSE [ok |-> TRUE,
        oracleGasPrice |-> Str(toWei(json[speedType])),
        oracleResponse |-> Obj(json)]

fetchGasPriceFromOracleZeroOk(json, speedType) ==
  IF Lookup(json, speedType) = Undefined
  THEN [ok |-> FALSE, oracleGasPrice |-> Null, oracleResponse |-> NoSpeeds]
  ELSE [ok |-> TRUE,
        oracleGasPrice |-> Str(toWei(gasPriceWithinLimits(json[speedType]))),
        oracleResponse |-> Obj(json)]

fetchGasPriceFromOracle(json, speedType) ==
  IF ~Truthy(Lookup(json, speedType))
  THEN [ok |-> FALSE, oracleGasPrice |-> Null, oracleResponse |-> NoSpeeds]
  ELSE [ok |-> TRUE,
        oracleGasPrice |-> Str(toWei(gasPriceWithinLimits(json[speedType]))),
        oracleResponse |-> Obj(json)]

(* try { await oracleFn() } catch (e) { ... contract ... }: where            *)
(* fetchGasPrice goes once the oracle call has settled                      *)
afterOracleAlwaysContract(ok) == "contract"

afterOracle(ok) == IF ok THEN "return" ELSE "contract"

(* gasPrice = await bridgeContract.methods.gasPrice().call() *)
contractGasPriceWithinLimits(value) ==
  IF value.t = "str" /\ value.s \notin {toWei(g) : g \in MIN..MAX}
  THEN Str(toWei(MAX))
  ELSE value

contractGasPrice(value) == value

(* cachedGasPrice = gasPrice || cachedGasPrice *)
applyGasPriceAlways(gasPrice, cached) == gasPrice

applyGasPrice(gasPrice, cached) ==
  IF Truthy(gasPrice) THEN gasPrice ELSE cached

(* cachedGasPriceOracleSpeeds = oracleGasPriceSpeeds || cachedGasPriceOracleSpeeds *)
applySpeedsAlways(oracleGasPriceSpeeds, cached) == oracleGasPriceSpeeds

applySpeeds(oracleGasPriceSpeeds, cached) ==
  IF oracleGasPriceSpeeds.t = "obj" THEN oracleGasPriceSpeeds ELSE cached

processGasPriceOptions(options, cachedPrice, cachedSpeeds) ==
  IF options.present /\ options.type # "" /\ Truthy(options.value)
  THEN IF options.type = "gasPrice" THEN options.value
       ELSE IF options.type = "speed"
       THEN IF cachedSpeeds.t # "obj" THEN Error("TypeError")
            ELSE LET speedOption == Lookup(cachedSpeeds.json, options.value.s)
                 IN  IF Truthy(speedOption) THEN Str(toWei(speedOption.n))
                     ELSE cachedPrice
       ELSE cachedPrice
  ELSE cachedPrice

(* clearInterval(fetchGasPriceInterval) *)
clearIntervalNoop(ts, handle) == ts

clearInterval(ts, handle) == {t \in ts : t.id # handle}

(* the branches of start that select the chain's configuration *)
startCachedGasPriceElse(chainId, cached) ==
  IF chainId = "home" THEN HOME_GAS_PRICE_FALLBACK
  ELSE FOREIGN_GAS_PRICE_FALLBACK

startCachedGasPrice(chainId, cached) ==
  IF chainId = "home" THEN HOME_GAS_PRICE_FALLBACK
  ELSE IF chainId = "foreign" THEN FOREIGN_GAS_PRICE_FALLBACK
  ELSE cached

(* setIntervalAndRun(f, interval): arms a repeating timer for f, calls f   *)
(* once at once and returns the timer's handle                             *)
setIntervalAndRunTimers(ts, id, chainId) == ts \cup {[id |-> id, chain |-> chainId]}

setIntervalAndRunCyclesNoRun(cs, cy) == cs

setIntervalAndRunCycles(cs, cy) == cs \cup {cy}

(* one invocation of the callback, suspended at its first await *)
NewCycle(id, loop, chainId) ==
  [id |-> id, loop |-> loop, chain |-> chainId, pc |-> "oracle",
   log |-> <<"oracle">>]

(* what fetchGasPrice returns on its two paths *)
fetchGasPriceFromOracleResult(r) ==
  [gasPrice |-> r.oracleGasPrice, oracleGasPriceSpeeds |-> r.oracleResponse]

fetchGasPriceFromContractResultRethrows(outcome) ==
  [gasPrice |-> IF outcome.ok THEN contractGasPrice(outcome.value)
                ELSE Error("ChainQueryError"),
   oracleGasPriceSpeeds |-> NoSpeeds]

fetchGasPriceFromContractResult(outcome) ==
  [gasPrice |-> IF outcome.ok THEN contractGasPrice(outcome.value) ELSE Null,
   oracleGasPriceSpeeds |-> NoSpeeds]

(* what the operation of the last step handed to its caller, if anything;  *)
(* for a step of a cycle also the cycle, the source that settled in the    *)
(* step, what it gave, and the calls and outcomes of the cycle so far      *)
Returned(op, chainId, options, value, speeds) ==
  [op |-> op, chainId |-> chainId, options |-> options, value |-> value,
   speeds |-> speeds, source |-> "", settled |-> Throws,
   id |-> 0, loop |-> 0, log |-> <<>>]

(* what fetchGasPriceFromOracle read of a reply it rejected: json[speedType] *)
Read(outcome, speedType) ==
  [outcome EXCEPT !.json = [k \in DOMAIN outcome.json \cap {speedType} |-> outcome.json[k]]]

Settled(r, cy, outcome, log) ==
  [r EXCEPT !.chainId = cy.chain, !.source = cy.pc, !.settled = outcome,
            !.id = cy.id, !.loop = cy.loop, !.log = log]

NoCall == Returned("none", "", NoOptions, Undefined, NoSpeeds)

-----------------------------------------------------------------------------
(* State machine *)

Init ==
  /\ cachedGasPrice = Null
  /\ cachedGasPriceOracleSpeeds = NoSpeeds
  /\ fetchGasPriceInterval = 0
  /\ timers = {}
  /\ cycles = {}
  /\ chain = "none"
  /\ nStarts = 0
  /\ nCycles = 0
  /\ returned = NoCall
  /\ writer = [gasPrice |-> 0, speeds |-> 0]

start(chainId) ==
  /\ nStarts < MaxStarts
  /\ nStarts' = nStarts + 1
  /\ cachedGasPrice' = startCachedGasPrice(chainId, cachedGasPrice)
  /\ UNCHANGED cachedGasPriceOracleSpeeds
  /\ IF chainId \in Chains
     THEN /\ Cardinality(cycles) < MaxInFlight
          /\ nCycles < MaxCycles
          /\ timers' = setIntervalAndRunTimers(
                         clearInterval(timers, fetchGasPriceInterval),
                         nStarts + 1, chainId)
          /\ fetchGasPriceInterval' = nStarts + 1
          /\ cycles' = setIntervalAndRunCycles(
                         cycles, NewCycle(nCycles + 1, nStarts + 1, chainId))
          /\ nCycles' = nCycles + 1
          /\ chain' = chainId
          /\ writer' = [writer EXCEPT !.gasPrice = 0]
          /\ returned' = Returned("start", chainId, NoOptions, Undefined, NoSpeeds)
     ELSE /\ timers' = clearInterval(timers, fetchGasPriceInterval)
          /\ returned' = Returned("start", chainId, NoOptions,
                                  Error("UnrecognizedChain"), NoSpeeds)
          /\ UNCHANGED <<fetchGasPriceInterval, cycles, nCycles, chain, writer>>

(* the callback is called: it runs up to its first await *)
Fire(t, id) ==
  /\ t \in timers
  /\ Cardinality(cycles) < MaxInFlight
  /\ cycles' = cycles \cup {NewCycle(id, t.id, t.chain)}
  /\ returned' = NoCall
  /\ UNCHANGED <<cachedGasPrice, cachedGasPriceOracleSpeeds, fetchGasPriceInterval,
                 timers, chain, nStarts, writer>>

(* the interval elapses: the timer calls the callback again *)
TimerFire(t) ==
  /\ nCycles < MaxCycles
  /\ nCycles' = nCycles + 1
  /\ Fire(t, nCycles + 1)

(* the callback's continuation: store what fetchGasPrice returned *)
Apply(cy, outcome, result) ==
  /\ cachedGasPrice' = applyGasPrice(result.gasPrice, cachedGasPrice)
  /\ cachedGasPriceOracleSpeeds' =
       applySpeeds(result.oracleGasPriceSpeeds, cachedGasPriceOracleSpeeds)
  /\ writer' = [gasPrice |-> IF Truthy(result.gasPrice)
                              THEN cy.id ELSE writer.gasPrice,
                 speeds |-> IF result.oracleGasPriceSpeeds.t = "obj"
                            THEN cy.id ELSE writer.speeds]
  /\ cycles' = cycles \ {cy}
  /\ returned' = Settled(Returned("fetchGasPrice", cy.chain, NoOptions,
                                   result.gasPrice, result.oracleGasPriceSpeeds),
                          cy, outcome,
                          Append(cy.log, IF outcome.ok THEN "ok" ELSE "error"))

(* await oracleFn() settles: on success fetchGasPrice returns and the       *)
(* callback stores the result, on failure the contract is asked             *)
OracleSettles(cy, outcome) ==
  /\ cy \in cycles
  /\ cy.pc = "oracle"
  /\ LET r == IF outcome.ok
              THEN fetchGasPriceFromOracle(outcome.json, speedTypeOf(cy.chain))
              ELSE [ok |-> FALSE, oracleGasPrice |-> Null, oracleResponse |-> NoSpeeds]
         log == Append(cy.log, IF r.ok THEN "ok" ELSE "error")
     IN  IF afterOracle(r.ok) = "return"
         THEN Apply(cy, outcome, fetchGasPriceFromOracleResult(r))
         ELSE /\ cycles' = (cycles \ {cy}) \cup
                             {[cy EXCEPT !.pc = "contract",
                                         !.log = Append(log, "contract")]}
              /\ returned' = Settled(NoCall, cy, Read(outcome, speedTypeOf(cy.chain)),
                                      Append(log, "contract"))
              /\ UNCHANGED <<cachedGasPrice, cachedGasPriceOracleSpeeds, writer>>
  /\ UNCHANGED <<fetchGasPriceInterval, timers, chain, nStarts, nCycles>>

(* await bridgeContract.methods.gasPrice().call() settles: fetchGasPrice    *)
(* returns and the callback stores the result                               *)
ContractSettles(cy, outcome) ==
  /\ cy \in cycles
  /\ cy.pc = "contract"
  /\ Apply(cy, outcome, fetchGasPriceFromContractResult(outcome))
  /\ UNCHANGED <<fetchGasPriceInterval, timers, chain, nStarts, nCycles>>

getPrice(options) ==
  /\ returned' = Returned("getPrice", "", options,
                          processGasPriceOptions(options, cachedGasPrice,
                                                 cachedGasPriceOracleSpeeds),
                          NoSpeeds)
  /\ UNCHANGED <<cachedGasPrice, cachedGasPriceOracleSpeeds, fetchGasPriceInterval,
                 timers, cycles, chain, nStarts, nCycles, writer>>

Next ==
  \/ \E chainId \in ChainIds : start(chainId)
  \/ \E t \in timers : TimerFire(t)
  \/ \E cy \in cycles, outcome \in OracleOutcomes : OracleSettles(cy, outcome)
  \/ \E cy \in cycles, outcome \in ContractOutcomes : ContractSettles(cy, outcome)
  \/ \E options \in OptionsInputs : getPrice(options)

Spec == Init /\ [][Next]_vars

(* The timer without a bound on the number of its firings: the cycles are  *)
(* not counted and the identity of a finished cycle is used again.         *)
FreeId ==
  CHOOSE i \in (MaxStarts + 1)..(MaxStarts + MaxInFlight) :
    /\ \A cy \in cycles : cy.id # i
    /\ \A j \in (MaxStarts + 1)..(i - 1) : \E cy \in cycles : cy.id = j

LiveTimerFire(t) ==
  /\ UNCHANGED nCycles
  /\ Fire(t, FreeId)

(* a failed request, a reply without a usable price, and a reply that    *)
(* names one price for every speed                                      *)
LiveOracleOutcomes ==
  {Throws} \cup {[ok |-> TRUE, json |-> [k \in SpeedKeys |-> x], value |-> Null] :
                   x \in {0, MaxOracle}}

LiveNext ==
  \/ \E chainId \in ChainIds : start(chainId)
  \/ \E t \in timers : LiveTimerFire(t)
  \/ \E cy \in cycles, outcome \in LiveOracleOutcomes : OracleSettles(cy, outcome)
  \/ \E cy \in cycles, outcome \in ContractOutcomes : ContractSettles(cy, outcome)

(* the event loop runs a timer that is due, and a pending call settles *)
LiveSpec ==
  /\ Init
  /\ [][LiveNext]_vars
  /\ WF_vars(\E t \in timers : LiveTimerFire(t))
  /\ WF_vars(\E cy \in cycles, outcome \in LiveOracleOutcomes : OracleSettles(cy, outcome))
  /\ WF_vars(\E cy \in cycles, outcome \in ContractOutcomes : ContractSettles(cy, outcome))

(* gasPriceWithinLimits called on its own, as the module exports it *)
WithinLimitsInputs == (MIN - MaxInput)..(MAX + MaxInput)

callGasPriceWithinLimits(gasPrice) ==
  /\ returned' = Returned("gasPriceWithinLimits", "", Options("", Num(gasPrice)),
                          Num(gasPriceWithinLimits(gasPrice)), NoSpeeds)
  /\ UNCHANGED <<cachedGasPrice, cachedGasPriceOracleSpeeds, fetchGasPriceInterval,
                 timers, cycles, chain, nStarts, nCycles, writer>>

NextWithinLimits == \E gasPrice \in WithinLimitsInputs : callGasPriceWithinLimits(gasPrice)

SpecWithinLimits == Init /\ [][NextWithinLimits]_vars

-----------------------------------------------------------------------------
(* Properties *)

fallbackOf(chainId) ==
  IF chainId = "home" THEN HOME_GAS_PRICE_FALLBACK ELSE FOREIGN_GAS_PRICE_FALLBACK

Defaults == {HOME_GAS_PRICE_FALLBACK, FOREIGN_GAS_PRICE_FALLBACK}

(* base-unit values of the prices MIN..MAX *)
WithinLimitsWei == {Str(ToString(g) \o "000000000") : g \in MIN..MAX}

(* C1: after a successful start, getPrice returns a value and never raises *)
(* an error, whatever the request and whether or not the speed table has   *)
(* been set yet.                                                           *)
C1_GetPriceNeverFails ==
  (chain # "none" /\ returned.op = "getPrice") => returned.value.t \in {"num", "str"}

(* C2: once start has initialized the cache the cached value is never      *)
(* unset; a cycle whose result has no value leaves it alone, and it        *)
(* changes in a cycle only to the truthy value that cycle fetched.         *)
C2_CachedValueKept ==
  /\ [](chain # "none" => cachedGasPrice.t \in {"num", "str"})
  /\ [][/\ (returned'.op = "fetchGasPrice" /\ ~Truthy(returned'.value))
             => cachedGasPrice' = cachedGasPrice
        /\ cachedGasPrice' # cachedGasPrice
             => \/ returned'.op = "start"
                \/ /\ returned'.op = "fetchGasPrice"
                   /\ Truthy(returned'.value)
                   /\ cachedGasPrice' = returned'.value]_vars

C2_Witness ==
  /\ returned.op = "fetchGasPrice"
  /\ ~Truthy(returned.value)
  /\ cachedGasPrice \notin Defaults \cup {Null}

(* C3: a value that comes from the oracle lies within [MIN, MAX] (in base  *)
(* units) when it is cached and when getPrice returns it, also for a       *)
(* request by speed name that is served from the cached speed table.       *)
C3_OracleValuesWithinLimits ==
  /\ (returned.op = "fetchGasPrice" /\ returned.speeds.t = "obj")
       => cachedGasPrice \in WithinLimitsWei
  /\ (/\ returned.op = "getPrice"
      /\ returned.options.type = "speed"
      /\ cachedGasPriceOracleSpeeds.t = "obj"
      /\ Truthy(Lookup(cachedGasPriceOracleSpeeds.json, returned.options.value.s)))
       => returned.value \in WithinLimitsWei

(* C4: an operation on one chain (its start, or a cycle of its loop)       *)
(* never changes the cached value or speed table served for the other.     *)
C4_NoCrossChainState ==
  [][(/\ returned'.op \in {"start", "fetchGasPrice"}
      /\ returned'.chainId \in Chains
      /\ chain \in Chains
      /\ returned'.chainId # chain)
       => UNCHANGED <<cachedGasPrice, cachedGasPriceOracleSpeeds>>]_vars

(* C5: start with an unrecognized chainId fails with UnrecognizedChain,    *)
(* leaves the cached value and speed table alone and schedules no task.    *)
C5_UnknownChainStart ==
  [][(returned'.op = "start" /\ returned'.chainId \notin Chains)
       => /\ returned'.value = Error("UnrecognizedChain")
          /\ UNCHANGED <<cachedGasPrice, cachedGasPriceOracleSpeeds>>
          /\ timers' \subseteq timers
          /\ cycles' = cycles]_vars

C5_Witness ==
  /\ returned.op = "start"
  /\ returned.chainId \notin Chains
  /\ returned.value.t = "error"
  /\ cachedGasPrice \notin Defaults \cup {Null}
  /\ cachedGasPriceOracleSpeeds.t = "obj"

(* C6: every successful start(chain), first or repeated, leaves the cached *)
(* value at the chain's fallback default and the speed table unset.        *)
C6_StartResetsCache ==
  (returned.op = "start" /\ returned.chainId \in Chains)
    => /\ cachedGasPrice = fallbackOf(returned.chainId)
       /\ cachedGasPriceOracleSpeeds = NoSpeeds

(* C7: at most one refresh loop is scheduled at any time, it is the one    *)
(* of the latest start, and every cycle that begins belongs to that loop.  *)
C7_OneLoop ==
  /\ [](/\ Cardinality(timers) <= 1
        /\ \A t \in timers : t.id = fetchGasPriceInterval)
  /\ [][\A cy \in cycles' :
          cy.id \notin {c.id : c \in cycles} => cy.loop = fetchGasPriceInterval']_vars

C7_Witness ==
  \E a, b \in cycles :
    /\ a.loop # b.loop
    /\ b.loop = fetchGasPriceInterval
    /\ b.id > a.id + 1

(* C8 as stated: when the oracle fetch failed and the contract returns v,  *)
(* the result is {v, no speeds}; the cached value then equals v exactly    *)
(* and the speed table is as it was.                                       *)
C8_FallbackValueCached ==
  [][(/\ returned'.op = "fetchGasPrice"
      /\ returned'.source = "contract"
      /\ returned'.settled.ok)
       => /\ returned'.value = returned'.settled.value
          /\ returned'.speeds = NoSpeeds
          /\ cachedGasPrice' = returned'.settled.value
          /\ cachedGasPriceOracleSpeeds' = cachedGasPriceOracleSpeeds]_vars

(* C8 amended: the same for every truthy v; a falsy v (0) is returned but  *)
(* not cached.                                                             *)
C8_TruthyFallbackValueCached ==
  [][(/\ returned'.op = "fetchGasPrice"
      /\ returned'.source = "contract"
      /\ returned'.settled.ok)
       => /\ returned'.value = returned'.settled.value
          /\ returned'.speeds = NoSpeeds
          /\ cachedGasPrice' = (IF Truthy(returned'.settled.value)
                                THEN returned'.settled.value
                                ELSE cachedGasPrice)
          /\ cachedGasPriceOracleSpeeds' = cachedGasPriceOracleSpeeds]_vars

C8_Witness ==
  /\ returned.op = "fetchGasPrice"
  /\ returned.source = "contract"
  /\ returned.settled.value = Str("7000000000")
  /\ cachedGasPrice = Str("7000000000")
  /\ cachedGasPriceOracleSpeeds.t = "obj"

(* C9: when both the oracle and the contract fail, the cycle's result has  *)
(* neither field, the cached value and speed table stay as they were, and  *)
(* getPrice without a request returns the same value as before.            *)
C9_TotalFailureKeepsCache ==
  [][(/\ returned'.op = "fetchGasPrice"
      /\ returned'.source = "contract"
      /\ ~returned'.settled.ok)
       => /\ returned'.value = Null
          /\ returned'.speeds = NoSpeeds
          /\ UNCHANGED <<cachedGasPrice, cachedGasPriceOracleSpeeds>>
          /\ processGasPriceOptions(NoOptions, cachedGasPrice',
                                    cachedGasPriceOracleSpeeds') = cachedGasPrice]_vars

C9_Witness ==
  /\ returned.op = "fetchGasPrice"
  /\ returned.source = "contract"
  /\ ~returned.settled.ok
  /\ cachedGasPriceOracleSpeeds.t = "obj"
  /\ cachedGasPrice \in WithinLimitsWei

(* C10: when the oracle's reply has a truthy x for the configured speed,   *)
(* the cycle's result is the clamped x in base units together with the     *)
(* whole reply as it came, and both are stored in the cache.               *)
C10_OracleSuccess ==
  (/\ returned.op = "fetchGasPrice"
   /\ returned.source = "oracle"
   /\ returned.settled.ok
   /\ speedTypeOf(returned.chainId) \in DOMAIN returned.settled.json
   /\ returned.settled.json[speedTypeOf(returned.chainId)] # 0)
    => LET x == returned.settled.json[speedTypeOf(returned.chainId)]
           clamped == IF x < MIN THEN MIN ELSE IF x > MAX THEN MAX ELSE x
           wei == Str(ToString(clamped) \o "000000000")
       IN  /\ returned.value = wei
           /\ returned.speeds = Obj(returned.settled.json)
           /\ cachedGasPrice = wei
           /\ cachedGasPriceOracleSpeeds = Obj(returned.settled.json)

C10_Witness ==
  /\ returned.op = "fetchGasPrice"
  /\ returned.source = "oracle"
  /\ returned.settled.ok
  /\ returned.settled.json[speedTypeOf(returned.chainId)] > MAX
  /\ \E k \in DOMAIN returned.settled.json : returned.settled.json[k] \in 1..(MIN - 1)
  /\ cachedGasPrice = Str(ToString(MAX) \o "000000000")
  /\ cachedGasPriceOracleSpeeds = returned.speeds

(* C11: getPrice with a request of type gasPrice returns the request's     *)
(* value as it is, whatever the value and the cache.                       *)
C11_ExplicitValueVerbatim ==
  (returned.op = "getPrice" /\ returned.options.type = "gasPrice")
    => returned.value = returned.options.value

(* C12: getPrice with a request of type speed and value k returns the      *)
(* cached table's entry for k in base units when that entry is truthy, and *)
(* the cached value as it is when the table has no truthy entry for k.     *)
C12_NamedSpeed ==
  (chain # "none" /\ returned.op = "getPrice" /\ returned.options.type = "speed")
    => LET entry == IF cachedGasPriceOracleSpeeds.t = "obj"
                    THEN Lookup(cachedGasPriceOracleSpeeds.json, returned.options.value.s)
                    ELSE Undefined
       IN  IF Truthy(entry)
           THEN returned.value = Str(ToString(entry.n) \o "000000000")
           ELSE returned.value = cachedGasPrice

(* C13: gasPriceWithinLimits returns MIN for a value below MIN, MAX for a  *)
(* value above MAX and the value itself in between; its result is always   *)
(* within [MIN, MAX].                                                      *)
C13_WithinLimits ==
  returned.op = "gasPriceWithinLimits"
    => LET v == returned.options.value.n
           r == returned.value.n
       IN  /\ v < MIN => r = MIN
           /\ v > MAX => r = MAX
           /\ (MIN <= v /\ v <= MAX) => r = v
           /\ MIN <= r /\ r <= MAX

C13_Witness ==
  /\ returned.op = "gasPriceWithinLimits"
  /\ returned.options.value.n < MIN
  /\ returned.value.n = MIN

(* C14: within one refresh loop at most one cycle is in flight at a time.  *)
C14_NoOverlapInLoop ==
  \A a, b \in cycles : a.loop = b.loop => a = b

(* C15: every cycle calls the oracle exactly once and first, calls the     *)
(* contract at most once and only after the oracle call failed, and calls  *)
(* no source a second time.                                                *)
C15_SourcesOncePerCycle ==
  /\ \A cy \in cycles :
       \/ cy.pc = "oracle" /\ cy.log = <<"oracle">>
       \/ cy.pc = "contract" /\ cy.log = <<"oracle", "error", "contract">>
  /\ returned.op = "fetchGasPrice"
       => returned.log \in {<<"oracle", "ok">>,
                            <<"oracle", "error", "contract", "ok">>,
                            <<"oracle", "error", "contract", "error">>}

C15_Witness ==
  /\ returned.op = "fetchGasPrice"
  /\ returned.log = <<"oracle", "error", "contract", "ok">>
  /\ \E cy \in cycles : cy.log = <<"oracle", "error", "contract">>

(* C16: whatever the oracle and the contract do, fetchGasPrice returns a   *)
(* result and never an error, and no step of a cycle unschedules the loop. *)
C16_CycleNeverThrows ==
  /\ [](returned.op = "fetchGasPrice"
          => /\ returned.value.t \in {"null", "num", "str"}
             /\ returned.speeds.t \in {"null", "obj"})
  /\ [][nCycles' = nCycles /\ nStarts' = nStarts => timers' = timers]_vars

C16_Witness ==
  /\ returned.op = "fetchGasPrice"
  /\ returned.log = <<"oracle", "error", "contract", "error">>
  /\ returned.value = Null
  /\ \E t \in timers : t.id = returned.loop

(* C17: when the oracle replies without a truthy entry for the configured  *)
(* speed (absent, or 0), the cycle goes on to the contract, the reply is   *)
(* dropped, and the cycle does not change the cached speed table.          *)
C17_MissingSpeedFallsBack ==
  /\ [][(/\ returned'.source = "oracle"
         /\ returned'.settled.ok
         /\ ~Truthy(Lookup(returned'.settled.json, speedTypeOf(returned'.chainId))))
          => /\ returned'.op = "none"
             /\ \E cy \in cycles' : cy.id = returned'.id /\ cy.pc = "contract"
             /\ UNCHANGED <<cachedGasPrice, cachedGasPriceOracleSpeeds>>]_vars
  /\ [][(returned'.op = "fetchGasPrice" /\ returned'.source = "contract")
          => /\ returned'.speeds = NoSpeeds
             /\ cachedGasPriceOracleSpeeds' = cachedGasPriceOracleSpeeds]_vars

C17_Witness ==
  /\ returned.op = "none"
  /\ returned.source = "oracle"
  /\ returned.settled.ok
  /\ Lookup(returned.settled.json, speedTypeOf(returned.chainId)) = Num(0)
  /\ \E cy \in cycles : cy.id = returned.id /\ cy.pc = "contract"
  /\ cachedGasPriceOracleSpeeds.t = "obj"

(* C18 as stated: a successful start begins a cycle at once; while the     *)
(* loop stays scheduled cycles begin again and again; and when a source    *)
(* of a cycle succeeds the cached value becomes that cycle's value.        *)
C18_RefreshKeepsRunning ==
  /\ [][(returned'.op = "start" /\ returned'.chainId \in Chains)
          => \E cy \in cycles' \ cycles :
               cy.loop = fetchGasPriceInterval' /\ cy.pc = "oracle"]_vars
  /\ <>[](timers # {}) => []<><<\E t \in timers : LiveTimerFire(t)>>_vars
  /\ [][(returned'.op = "fetchGasPrice" /\ returned'.log[Len(returned'.log)] = "ok")
          => cachedGasPrice' = returned'.value]_vars

(* C18 amended: the same, the cached value becoming the cycle's value when *)
(* that value is truthy.                                                   *)
C18_RefreshKeepsRunningTruthy ==
  /\ [][(returned'.op = "start" /\ returned'.chainId \in Chains)
          => \E cy \in cycles' \ cycles :
               cy.loop = fetchGasPriceInterval' /\ cy.pc = "oracle"]_vars
  /\ <>[](timers # {}) => []<><<\E t \in timers : LiveTimerFire(t)>>_vars
  /\ [][(/\ returned'.op = "fetchGasPrice"
         /\ returned'.log[Len(returned'.log)] = "ok"
         /\ Truthy(returned'.value))
          => cachedGasPrice' = returned'.value]_vars

C18_Witness ==
  /\ returned.op = "fetchGasPrice"
  /\ returned.id > MaxStarts
  /\ returned.log = <<"oracle", "error", "contract", "ok">>
  /\ cachedGasPrice = returned.value
  /\ writer.gasPrice = returned.id
  /\ writer.speeds \in 1..MaxStarts

(* C19: once start has returned, the cached value and speed table are      *)
(* changed only by cycles of the loop that start created.                  *)
C19_NoWriteFromCancelledLoop ==
  [][(/\ returned'.op = "fetchGasPrice"
      /\ <<cachedGasPrice, cachedGasPriceOracleSpeeds>>' #
           <<cachedGasPrice, cachedGasPriceOracleSpeeds>>)
       => returned'.loop = fetchGasPriceInterval]_vars

(* C20: a cycle never overwrites the cached value or speed table written   *)
(* by a cycle that began after it.                                         *)
C20_UpdatesInStartOrder ==
  [][returned'.op = "fetchGasPrice"
       => /\ cachedGasPrice' # cachedGasPrice => returned'.id > writer.gasPrice
          /\ cachedGasPriceOracleSpeeds' # cachedGasPriceOracleSpeeds
               => returned'.id > writer.speeds]_vars

====
